---- MODULE Spec2Model ----
(***************************************************************************)
(* Model of select_context.py (ContextFileCreator): the list of selected   *)
(* files, the root folder derived from it, the widgets that mirror them,   *)
(* and the markdown document built from them.                              *)
(*                                                                         *)
(* Text is modelled character by character: a Python str is a sequence of  *)
(* one-character strings, so that splitting on the path separator,         *)
(* joining, formatting and concatenation are computed, not assumed.        *)
(***************************************************************************)
EXTENDS Integers, Sequences, FiniteSets, TLC

\* ------------------------------------------------------------------ bounds
\* longest list a file dialog hands to add_files in one call
MaxInput == 2
\* most urls carried by one drop event
MaxUrls == 1

\* ------------------------------------------------------------- str helpers
Printable == <<" ", "!", "QUOTE", "#", "$", "%", "&", "'", "(", ")", "*", "+", ",", "-", ".", "/", "0", "1", "2", "3", "4", "5", "6", "7", "8", "9", ":", ";", "<", "=", ">", "?", "@", "A", "B", "C", "D", "E", "F", "G", "H", "I", "J", "K", "L", "M", "N", "O", "P", "Q", "R", "S", "T", "U", "V", "W", "X", "Y", "Z", "[", "BACKSLASH", "]", "^", "_", "BACKTICK", "a", "b", "c", "d", "e", "f", "g", "h", "i", "j", "k", "l", "m", "n", "o", "p", "q", "r", "s", "t", "u", "v", "w", "x", "y", "z", "{", "|", "}", "~">>

\* code point of a printable character (Printable starts at the space; the
\* double quote, the backslash and the backtick are written by name)
ord == [c \in {Printable[i] : i \in 1..Len(Printable)} |->
          Len(" ") + 30 + (CHOOSE i \in 1..Len(Printable) : Printable[i] = c)]

\* str < str, as Python compares strings: by code point, shorter first
RECURSIVE str_lt(_, _)
str_lt(a, b) ==
  IF a = <<>> THEN b # <<>>
  ELSE IF b = <<>> THEN FALSE
  ELSE IF a[1] = b[1] THEN str_lt(Tail(a), Tail(b))
  ELSE ord[a[1]] < ord[b[1]]

\* list < list for lists of str, as Python compares lists
RECURSIVE list_lt(_, _)
list_lt(a, b) ==
  IF a = <<>> THEN b # <<>>
  ELSE IF b = <<>> THEN FALSE
  ELSE IF a[1] = b[1] THEN list_lt(Tail(a), Tail(b))
  ELSE str_lt(a[1], b[1])

\* s.find(c) from position i on: first index of c (1-based), 0 when absent
RECURSIVE find_from(_, _, _)
find_from(s, c, i) ==
  IF i > Len(s) THEN 0 ELSE IF s[i] = c THEN i ELSE find_from(s, c, i + 1)

find(s, c) == find_from(s, c, 1)

\* s.rfind(c) from position i down: last index of c (1-based), 0 when absent
RECURSIVE rfind_from(_, _, _)
rfind_from(s, c, i) ==
  IF i < 1 THEN 0 ELSE IF s[i] = c THEN i ELSE rfind_from(s, c, i - 1)

rfind(s, c) == rfind_from(s, c, Len(s))

\* s.split(sep) for a one-character sep: empty pieces are kept
RECURSIVE split(_, _)
split(s, sep) ==
  LET i == find(s, sep)
  IN IF i = 0 THEN <<s>>
     ELSE <<SubSeq(s, 1, i - 1)>> \o split(SubSeq(s, i + 1, Len(s)), sep)

\* sep.join(parts)
RECURSIVE str_join(_, _)
str_join(sep, parts) ==
  IF parts = <<>> THEN <<>>
  ELSE IF Len(parts) = 1 THEN parts[1]
  ELSE parts[1] \o sep \o str_join(sep, Tail(parts))

\* str(n) for a natural number
RECURSIVE str(_)
str(n) ==
  LET digits == <<"0", "1", "2", "3", "4", "5", "6", "7", "8", "9">>
  IN IF n < 10 THEN <<digits[n + 1]>>
     ELSE str(n \div 10) \o <<digits[(n % 10) + 1]>>

\* [x for x in s if keep(x)] with keep = "not empty and not the given one"
RECURSIVE drop_empty_and(_, _)
drop_empty_and(parts, skip) ==
  IF parts = <<>> THEN <<>>
  ELSE IF parts[1] = <<>> \/ parts[1] = skip
       THEN drop_empty_and(Tail(parts), skip)
       ELSE <<parts[1]>> \o drop_empty_and(Tail(parts), skip)

\* the elements of a sequence
Range(s) == {s[i] : i \in 1..Len(s)}

\* all sequences over S of length at most n
SeqUpTo(S, n) == UNION {[1..k -> S] : k \in 0..n}

\* all orderings of the finite set S
Perms(S) == {p \in [1..Cardinality(S) -> S] : \A i, j \in 1..Cardinality(S) : p[i] = p[j] => i = j}

\* ------------------------------------------------------------ os.path
sep == <<"/">>
curdir == <<".">>
pardir == <<".", ".">>
extsep == "."

\* the working directory of the process
getcwd == <<"/", "x">>

\* os.path.isabs
isabs(p) == p # <<>> /\ p[1] = sep[1]

\* os.path.join(a, b)
path_join(a, b) ==
  IF isabs(b) THEN b
  ELSE IF a = <<>> \/ a[Len(a)] = sep[1] THEN a \o b
  ELSE a \o sep \o b

\* the collapse of '.', '..' and empty components done by os.path.normpath
RECURSIVE collapse(_, _)
collapse(comps, done) ==
  IF comps = <<>> THEN done
  ELSE LET c == comps[1]
       IN IF c = <<>> \/ c = curdir THEN collapse(Tail(comps), done)
          ELSE IF c = pardir /\ done # <<>>
               THEN collapse(Tail(comps), SubSeq(done, 1, Len(done) - 1))
          ELSE IF c = pardir THEN collapse(Tail(comps), done)
          ELSE collapse(Tail(comps), Append(done, c))

\* os.path.abspath: join to the working directory, then normpath
abspath(p) ==
  LET full == IF isabs(p) THEN p ELSE path_join(getcwd, p)
  IN sep \o str_join(sep, collapse(split(full, sep[1]), <<>>))

\* min(lists) and max(lists) for a non-empty list of lists of str
RECURSIVE list_min(_)
list_min(ls) ==
  IF Len(ls) = 1 THEN ls[1]
  ELSE LET m == list_min(Tail(ls))
       IN IF list_lt(m, ls[1]) THEN m ELSE ls[1]

RECURSIVE list_max(_)
list_max(ls) ==
  IF Len(ls) = 1 THEN ls[1]
  ELSE LET m == list_max(Tail(ls))
       IN IF list_lt(ls[1], m) THEN m ELSE ls[1]

\* the loop shared by commonpath and commonprefix: the length of the longest
\* prefix of s1 on which s2 agrees, counted from position i
RECURSIVE first_difference(_, _, _)
first_difference(s1, s2, i) ==
  IF i > Len(s1) THEN Len(s1)
  ELSE IF i > Len(s2) \/ s1[i] # s2[i] THEN i - 1
  ELSE first_difference(s1, s2, i + 1)

\* os.path.commonprefix on strings: character by character
commonprefix(paths) ==
  LET S  == Range(paths)
      s1 == CHOOSE x \in S : \A y \in S : x = y \/ str_lt(x, y)
      s2 == CHOOSE x \in S : \A y \in S : x = y \/ str_lt(y, x)
  IN SubSeq(s1, 1, first_difference(s1, s2, 1))

\* os.path.commonpath on a non-empty list of absolute paths
commonpath(paths) ==
  LET split_paths == [i \in 1..Len(paths) |-> drop_empty_and(split(paths[i], sep[1]), curdir)]
      s1 == list_min(split_paths)
      s2 == list_max(split_paths)
      common == SubSeq(s1, 1, first_difference(s1, s2, 1))
      prefix == IF isabs(paths[1]) THEN sep ELSE <<>>
  IN prefix \o str_join(sep, common)

\* [pardir] * n
RECURSIVE pardirs(_)
pardirs(n) == IF n <= 0 THEN <<>> ELSE <<pardir>> \o pardirs(n - 1)

\* os.path.relpath(path, start)
relpath(path, start) ==
  LET start_list == drop_empty_and(split(abspath(start), sep[1]), <<>>)
      path_list  == drop_empty_and(split(abspath(path), sep[1]), <<>>)
      s1 == IF start_list = path_list \/ list_lt(start_list, path_list) THEN start_list ELSE path_list
      s2 == IF s1 = start_list THEN path_list ELSE start_list
      i  == first_difference(s1, s2, 1)
      rel_list == pardirs(Len(start_list) - i) \o SubSeq(path_list, i + 1, Len(path_list))
  IN IF rel_list = <<>> THEN curdir ELSE str_join(sep, rel_list)

\* os.path.splitext(p)[1]: the extension, leading dots of the name ignored
splitext_ext(p) ==
  LET sepIndex == rfind(p, sep[1])
      dotIndex == rfind(p, extsep)
  IN IF dotIndex > sepIndex
        /\ \E k \in (sepIndex + 1)..(dotIndex - 1) : p[k] # extsep
     THEN SubSeq(p, dotIndex, Len(p))
     ELSE <<>>

\* os.path.dirname
dirname(p) ==
  LET head == SubSeq(p, 1, rfind(p, sep[1]))
      RECURSIVE rstrip(_)
      rstrip(h) == IF h # <<>> /\ h[Len(h)] = sep[1] THEN rstrip(SubSeq(h, 1, Len(h) - 1)) ELSE h
  IN IF head # <<>> /\ \E i \in 1..Len(head) : head[i] # sep[1] THEN rstrip(head) ELSE head

\* os.path.basename
basename(p) == SubSeq(p, rfind(p, sep[1]) + 1, Len(p))

\* ------------------------------------------------------- the file system
\* The disk the dialogs and os.walk look at: two files in two folders.
\* FileABCE is a path that names no file on disk (its parent is a file); a
\* drop can still carry it, and the program accepts any path that is not a
\* directory.
FileABC  == <<"/", "a", "/", "b", "/", "c", ".", "t", "x", "t">>
FileABBD == <<"/", "a", "/", "b", "b", "/", "d", ".", "t", "x", "t">>
FileABCE == <<"/", "a", "/", "b", "/", "c", ".", "t", "x", "t", "/", "e">>

DiskFiles == {FileABC, FileABBD}
FilePaths == DiskFiles \cup {FileABCE}

\* every directory above p
RECURSIVE ancestors(_)
ancestors(p) == IF dirname(p) = p THEN {} ELSE {dirname(p)} \cup ancestors(dirname(p))

Dirs == UNION {ancestors(f) : f \in DiskFiles}

\* os.path.isdir
isdir(p) == p \in Dirs

\* the concatenation of a sequence of sequences
RECURSIVE flatten(_)
flatten(ss) == IF ss = <<>> THEN <<>> ELSE ss[1] \o flatten(Tail(ss))

\* os.walk that stops at the files of top and enters no sub-directory
walk_top_only(top) ==
  LET files == {f \in DiskFiles : dirname(f) = top}
  IN {[i \in 1..Cardinality(files) |-> path_join(top, basename(fo[i]))] : fo \in Perms(files)}

\* os.walk(top), top-down, as the loops of add_folder and dropEvent consume
\* it: the files of top, then those of each sub-directory in turn.  The order
\* in which a directory lists its entries is the file system's, so every
\* order is possible: walk is the set of lists the loops can build.
RECURSIVE walk(_)
RECURSIVE walk_dirs(_)
walk(top) ==
  LET files == {f \in DiskFiles : dirname(f) = top}
      dirs  == {d \in Dirs : d # top /\ dirname(d) = top}
  IN {[i \in 1..Cardinality(files) |-> path_join(top, basename(fo[i]))] \o below :
        fo \in Perms(files), below \in UNION {walk_dirs(d) : d \in Perms(dirs)}}
walk_dirs(dirs) ==
  IF dirs = <<>> THEN {<<>>}
  ELSE {a \o b : a \in walk(dirs[1]), b \in walk_dirs(Tail(dirs))}

\* the lists the walk of each directory of the disk can give
walked == [d \in Dirs |-> walk(d)]

\* ------------------------------------------------------------------ state
VARIABLES
  selected_files,  \* self.selected_files: the list of selected paths
  root_folder,     \* self.root_folder: "" (the empty str) when not set
  file_list,       \* the items of the list widget self.file_list
  root_label,      \* the text of self.root_label
  dialogs,         \* the message boxes the latest handler showed, in order
  copied,          \* <<markdown>> when the latest handler called pyperclip.copy, else <<>>
  structure_text,  \* <<text>> when the latest call of get_file_structure returned text, else <<>>
  raised,          \* the exception that escaped the latest handler, or "none"; PyQt ends
                   \* the process when one escapes a slot, so no handler runs after it
  last             \* the latest handler call: its name, its input, and what it started from

vars == <<selected_files, root_folder, file_list, root_label, dialogs, copied, structure_text, raised, last>>

\* a QMessageBox call
MessageBox(kind, title, text) == [kind |-> kind, title |-> title, text |-> text]

\* the record kept of a handler call
Call(op, arg, files, added, skipped) ==
  [op |-> op, arg |-> arg, files |-> files, added |-> added, skipped |-> skipped,
   before |-> selected_files, root_before |-> root_folder]

Init ==
  /\ selected_files = <<>>
  /\ root_folder = <<>>
  /\ file_list = <<>>
  /\ root_label = <<"R", "o", "o", "t", ":", " ", "N", "o", "t", " ", "s", "e", "t">>
  /\ dialogs = <<>>
  /\ copied = <<>>
  /\ structure_text = <<>>
  /\ raised = "none"
  /\ last = [op |-> "init", arg |-> <<>>, files |-> <<>>, added |-> 0, skipped |-> 0,
             before |-> <<>>, root_before |-> <<>>]

\* ------------------------------------------------------- the file list
\* add_loop without its membership test: every file is appended
RECURSIVE add_loop_append_all(_, _, _, _)
add_loop_append_all(selected, files, added, skipped) ==
  IF files = <<>> THEN [selected_files |-> selected, added |-> added, skipped |-> skipped]
  ELSE add_loop_append_all(Append(selected, files[1]), Tail(files), added + 1, skipped)

\* add_loop putting each new file at the front of the list
RECURSIVE add_loop_prepend(_, _, _, _)
add_loop_prepend(selected, files, added, skipped) ==
  IF files = <<>> THEN [selected_files |-> selected, added |-> added, skipped |-> skipped]
  ELSE IF files[1] \notin Range(selected)
       THEN add_loop_prepend(<<files[1]>> \o selected, Tail(files), added + 1, skipped)
       ELSE add_loop_prepend(selected, Tail(files), added, skipped + 1)

\* add_loop counting a skipped file as added too
RECURSIVE add_loop_counts_skipped(_, _, _, _)
add_loop_counts_skipped(selected, files, added, skipped) ==
  IF files = <<>> THEN [selected_files |-> selected, added |-> added, skipped |-> skipped]
  ELSE IF files[1] \notin Range(selected)
       THEN add_loop_counts_skipped(Append(selected, files[1]), Tail(files), added + 1, skipped)
       ELSE add_loop_counts_skipped(selected, Tail(files), added + 1, skipped + 1)

\* add_loop that does not count the files it skips
RECURSIVE add_loop_skips_uncounted(_, _, _, _)
add_loop_skips_uncounted(selected, files, added, skipped) ==
  IF files = <<>> THEN [selected_files |-> selected, added |-> added, skipped |-> skipped]
  ELSE IF files[1] \notin Range(selected)
       THEN add_loop_skips_uncounted(Append(selected, files[1]), Tail(files), added + 1, skipped)
       ELSE add_loop_skips_uncounted(selected, Tail(files), added, skipped)

\* the loop of add_files_without_duplicates: the list and the two counters
\* after the files are gone through in order
RECURSIVE add_loop(_, _, _, _)
add_loop(selected, files, added, skipped) ==
  IF files = <<>> THEN [selected_files |-> selected, added |-> added, skipped |-> skipped]
  ELSE IF files[1] \notin Range(selected)
       THEN add_loop(Append(selected, files[1]), Tail(files), added + 1, skipped)
       ELSE add_loop(selected, Tail(files), added, skipped + 1)

\* the message add_files_without_duplicates shows when it skipped something
files_added_message(added, skipped) ==
  IF skipped > 0
  THEN <<MessageBox("information", "Files Added",
           <<"A", "d", "d", "e", "d", " ">> \o str(added)
           \o <<" ", "f", "i", "l", "e", "s", ".", " ", "S", "k", "i", "p", "p", "e", "d", " ">> \o str(skipped)
           \o <<" ", "d", "u", "p", "l", "i", "c", "a", "t", "e", " ", "f", "i", "l", "e", "s", ".">>)>>
  ELSE <<>>

\* update_file_list without self.file_list.clear(): the items pile up
update_file_list_no_clear(files) == file_list \o [i \in 1..Len(files) |-> files[i]]

\* update_file_list: the widget is cleared and refilled from the list
update_file_list(files) == [i \in 1..Len(files) |-> files[i]]

\* update_root_folder without its else branch: an emptied list leaves the
\* root as it was
update_root_folder_no_reset(files) == IF files # <<>> THEN commonpath(files) ELSE root_folder

\* update_root_folder: the value given to self.root_folder
update_root_folder(files) == IF files # <<>> THEN commonpath(files) ELSE <<>>

\* update_root_folder leaving the text of the label as __init__ made it
root_label_text_not_set(root) == <<"R", "o", "o", "t", ":", " ", "N", "o", "t", " ", "s", "e", "t">>

\* update_root_folder: the text given to the label
root_label_text(root) == <<"R", "o", "o", "t", ":", " ">> \o root

\* list.remove(x) for an x that is in the list: the first occurrence goes
list_remove(s, x) ==
  LET i == find(s, x)
  IN SubSeq(s, 1, i - 1) \o SubSeq(s, i + 1, Len(s))

\* add_files_without_duplicates(files) followed by update_root_folder(), the
\* body shared by add_files, add_folder and add_dropped_files
AddAndUpdate(op, arg, files) ==
  \E r \in {add_loop(selected_files, files, 0, 0)} :
     /\ selected_files' = r.selected_files
     /\ file_list' = update_file_list(r.selected_files)
     /\ dialogs' = files_added_message(r.added, r.skipped)
     /\ root_folder' = update_root_folder(r.selected_files)
     /\ root_label' = root_label_text(root_folder')
     /\ last' = Call(op, arg, files, r.added, r.skipped)
     /\ copied' = <<>>
     /\ structure_text' = <<>>
     /\ UNCHANGED raised

\* a handler that returns without touching the lists
NothingDone(op, arg) ==
  /\ dialogs' = <<>>
  /\ last' = Call(op, arg, <<>>, 0, 0)
  /\ copied' = <<>>
  /\ structure_text' = <<>>
  /\ UNCHANGED <<selected_files, root_folder, file_list, root_label, raised>>

\* what the file dialog can return: a list of files, empty when cancelled.
\* The disk can change between two dialogs, so any path that is not a
\* directory can come back.
FileDialogResults == SeqUpTo(FilePaths, MaxInput)

\* add_files
add_files ==
  /\ raised = "none"
  /\ \E files \in FileDialogResults :
       AddAndUpdate("add_files", files, files)

\* add_folder: the folder dialog returns a directory, or "" when cancelled
add_folder ==
  /\ raised = "none"
  /\ \E folder \in Dirs \cup {<<>>} :
       IF folder # <<>>
       THEN \E files_to_add \in walked[folder] :
              AddAndUpdate("add_folder", <<folder>>, files_to_add)
       ELSE NothingDone("add_folder", <<>>)

\* what a drop can carry: a local file url (a file, a directory, a path
\* that is neither) or a url that is not a local file
Urls == {[local |-> TRUE, path |-> p] : p \in FilePaths \cup Dirs}
          \cup {[local |-> FALSE, path |-> <<>>]}

\* dropEvent: the lists `links` can be after the loop over the urls
RECURSIVE links_of(_)
links_of(urls) ==
  IF urls = <<>> THEN {<<>>}
  ELSE LET url == urls[1]
           here == IF ~url.local THEN {<<>>}
                   ELSE IF isdir(url.path) THEN walked[url.path]
                   ELSE {<<url.path>>}
       IN {a \o b : a \in here, b \in links_of(Tail(urls))}

\* the url lists a drop event can carry, each with the lists of links the
\* loop of dropEvent can make of it
Drops == [urls \in SeqUpTo(Urls, MaxUrls) |-> links_of(urls)]

\* dropEvent, and add_dropped_files which its signal calls
dropEvent ==
  /\ raised = "none"
  /\ \E urls \in DOMAIN Drops :
       IF urls # <<>>
       THEN \E links \in Drops[urls] :
              AddAndUpdate("dropEvent", urls, links)
       ELSE NothingDone("dropEvent", urls)

\* select_root without the call of update_root_folder: the chosen folder stays
select_root_keeps_folder ==
  /\ raised = "none"
  /\ \E folder \in Dirs \cup {<<>>} :
       IF folder # <<>>
       THEN LET assigned == folder                              \* self.root_folder = folder
            IN /\ root_folder' = assigned
               /\ root_label' = root_label_text(assigned)
               /\ dialogs' = <<MessageBox("information", "Root Folder",
                                 <<"R", "o", "o", "t", " ", "f", "o", "l", "d", "e", "r", " ", "s", "e", "t", " ", "t", "o", ":", " ">>
                                 \o assigned)>>
               /\ last' = Call("select_root", <<assigned>>, <<>>, 0, 0)
               /\ copied' = <<>>
               /\ structure_text' = <<>>
               /\ UNCHANGED <<selected_files, file_list, raised>>
       ELSE NothingDone("select_root", <<>>)

\* select_root: the folder dialog returns a directory, or "" when cancelled
select_root ==
  /\ raised = "none"
  /\ \E folder \in Dirs \cup {<<>>} :
       IF folder # <<>>
       THEN LET assigned == folder                              \* self.root_folder = folder
                updated  == update_root_folder(selected_files)  \* self.update_root_folder()
            IN /\ root_folder' = updated
               /\ root_label' = root_label_text(updated)
               /\ dialogs' = <<MessageBox("information", "Root Folder",
                                 <<"R", "o", "o", "t", " ", "f", "o", "l", "d", "e", "r", " ", "s", "e", "t", " ", "t", "o", ":", " ">>
                                 \o updated)>>
               /\ last' = Call("select_root", <<assigned>>, <<>>, 0, 0)
               /\ copied' = <<>>
               /\ structure_text' = <<>>
               /\ UNCHANGED <<selected_files, file_list, raised>>
       ELSE NothingDone("select_root", <<>>)

\* remove_selected_file: current_item is the widget's current item, 0 when
\* it has none
remove_selected_file ==
  /\ raised = "none"
  /\ \E current_item \in 0..Len(file_list) :
       IF current_item # 0
       THEN LET file_path == file_list[current_item]
            IN IF file_path \in Range(selected_files)
               THEN LET files == list_remove(selected_files, file_path)
                    IN /\ selected_files' = files
                       /\ file_list' = update_file_list(files)
                       /\ root_folder' = update_root_folder(files)
                       /\ root_label' = root_label_text(root_folder')
                       /\ dialogs' = <<>>
                       /\ copied' = <<>>
                       /\ structure_text' = <<>>
                       /\ last' = Call("remove_selected_file", <<file_path>>, <<>>, 0, 0)
                       /\ UNCHANGED raised
               ELSE \* list.remove(x): x not in list
                    /\ raised' = "ValueError"
                    /\ dialogs' = <<>>
                    /\ copied' = <<>>
                    /\ structure_text' = <<>>
                    /\ last' = Call("remove_selected_file", <<file_path>>, <<>>, 0, 0)
                    /\ UNCHANGED <<selected_files, file_list, root_folder, root_label>>
       ELSE NothingDone("remove_selected_file", <<>>)

\* clear_files
clear_files ==
  /\ raised = "none"
  /\ selected_files' = <<>>
  /\ file_list' = update_file_list(<<>>)
  /\ root_folder' = update_root_folder(<<>>)
  /\ root_label' = root_label_text(root_folder')
  /\ dialogs' = <<>>
  /\ copied' = <<>>
  /\ structure_text' = <<>>
  /\ last' = Call("clear_files", <<>>, <<>>, 0, 0)
  /\ UNCHANGED raised

\* ---------------------------------------------------------- the document
\* The box-drawing characters of the tree, written by code point.
BoxVerticalRight == "U+251C"
BoxUpRight       == "U+2514"
BoxVertical      == "U+2502"
BoxHorizontal    == "U+2500"

\* A value of the nested dict built by get_file_structure: None, or a dict,
\* whose items are kept in insertion order as <<key, value>> pairs.
None == [dir |-> FALSE, items |-> <<>>]
Dict(items) == [dir |-> TRUE, items |-> items]

\* key in d
dict_has(d, key) == \E i \in 1..Len(d.items) : d.items[i][1] = key

\* d[key], for a key that is in d
dict_get(d, key) == d.items[CHOOSE i \in 1..Len(d.items) : d.items[i][1] = key][2]

\* d[key] = value: a key already there keeps its place
dict_set(d, key, value) ==
  IF dict_has(d, key)
  THEN Dict([i \in 1..Len(d.items) |->
               IF d.items[i][1] = key THEN <<key, value>> ELSE d.items[i]])
  ELSE Dict(Append(d.items, <<key, value>>))

\* the inner loop of get_file_structure and the assignment after it, for
\* one file: walking down `parts` from the dict `current`.  ok is FALSE when
\* the walk reaches None, where `part not in current` and
\* `current[...] = None` raise TypeError.
RECURSIVE tree_insert(_, _)
tree_insert(current, parts) ==
  IF ~current.dir THEN [ok |-> FALSE, tree |-> current]
  ELSE IF Len(parts) = 1 THEN [ok |-> TRUE, tree |-> dict_set(current, parts[1], None)]
  ELSE LET part == parts[1]
           made == IF dict_has(current, part) THEN current ELSE dict_set(current, part, Dict(<<>>))
           sub  == tree_insert(dict_get(made, part), Tail(parts))
       IN [ok |-> sub.ok, tree |-> dict_set(made, part, sub.tree)]

\* the outer loop of get_file_structure over the selected files
RECURSIVE tree_of(_, _, _)
tree_of(tree, files, root) ==
  IF files = <<>> THEN [ok |-> TRUE, tree |-> tree]
  ELSE LET rel_path == relpath(files[1], root)
           parts == split(rel_path, sep[1])
           r == tree_insert(tree, parts)
       IN IF r.ok THEN tree_of(r.tree, Tail(files), root) ELSE r

\* build_tree giving the lines under every sibling the indent of the last one
RECURSIVE build_tree_same_indent(_, _)
build_tree_same_indent(structure, prefix) ==
  LET items == structure.items
      line(i) ==
        IF i = Len(items)
        THEN <<prefix \o <<BoxUpRight, BoxHorizontal, BoxHorizontal, BoxHorizontal>> \o items[i][1]>>
             \o (IF items[i][2].dir
                 THEN build_tree_same_indent(items[i][2], prefix \o <<" ", " ", " ", " ">>)
                 ELSE <<>>)
        ELSE <<prefix \o <<BoxVerticalRight, BoxHorizontal, BoxHorizontal, BoxHorizontal>> \o items[i][1]>>
             \o (IF items[i][2].dir
                 THEN build_tree_same_indent(items[i][2], prefix \o <<" ", " ", " ", " ">>)
                 ELSE <<>>)
  IN flatten([i \in 1..Len(items) |-> line(i)])

\* build_tree(structure, prefix): the lines of the tree
RECURSIVE build_tree(_, _)
build_tree(structure, prefix) ==
  LET items == structure.items
      line(i) ==
        IF i = Len(items)
        THEN <<prefix \o <<BoxUpRight, BoxHorizontal, BoxHorizontal, BoxHorizontal>> \o items[i][1]>>
             \o (IF items[i][2].dir
                 THEN build_tree(items[i][2], prefix \o <<" ", " ", " ", " ">>)
                 ELSE <<>>)
        ELSE <<prefix \o <<BoxVerticalRight, BoxHorizontal, BoxHorizontal, BoxHorizontal>> \o items[i][1]>>
             \o (IF items[i][2].dir
                 THEN build_tree(items[i][2], prefix \o <<BoxVertical, " ", " ", " ">>)
                 ELSE <<>>)
  IN flatten([i \in 1..Len(items) |-> line(i)])

\* get_file_structure: ok is FALSE when building the dict raises TypeError
get_file_structure(files, root) ==
  IF files = <<>>
  THEN [ok |-> TRUE, text |-> <<"N", "o", " ", "f", "i", "l", "e", "s", " ", "s", "e", "l", "e", "c", "t", "e", "d", ".">>]
  ELSE LET t == tree_of(Dict(<<>>), files, root)
       IN IF t.ok THEN [ok |-> TRUE, text |-> str_join(<<"\n">>, build_tree(t.tree, <<>>))]
          ELSE [ok |-> FALSE, text |-> <<>>]

\* what f.read() returns for the files of the disk
content(file) ==
  IF file = FileABC THEN <<"h", "e", "l", "l", "o">> ELSE <<"x", " ", "=", " ", "1">>

\* str(e) for the OSError open() raises on a path it cannot open
strerror(file) ==
  (IF dirname(file) \in DiskFiles
   THEN <<"[", "E", "r", "r", "n", "o", " ", "2", "0", "]", " ", "N", "o", "t", " ", "a", " ", "d", "i", "r", "e", "c", "t", "o", "r", "y", ":", " ", "'">>
   ELSE <<"[", "E", "r", "r", "n", "o", " ", "2", "]", " ", "N", "o", " ", "s", "u", "c", "h", " ", "f", "i", "l", "e", " ", "o", "r", " ", "d", "i", "r", "e", "c", "t", "o", "r", "y", ":", " ", "'">>)
  \o file \o <<"'">>

\* the body of the loop of create_markdown for one file: its heading, then
\* its fenced content, or the notice when reading it raised
section(file, root, unreadable) ==
  LET rel_path == relpath(file, root)
      file_ext == splitext_ext(file)
  IN <<"#", "#", " ">> \o rel_path \o <<"\n", "\n">>
     \o (IF file \notin unreadable
         THEN <<"BACKTICK", "BACKTICK", "BACKTICK">> \o SubSeq(file_ext, 2, Len(file_ext)) \o <<"\n">>
              \o content(file)
              \o <<"\n", "BACKTICK", "BACKTICK", "BACKTICK", "\n", "\n">>
         ELSE <<"E", "r", "r", "o", "r", " ", "r", "e", "a", "d", "i", "n", "g", " ", "f", "i", "l", "e", ":", " ">>
              \o strerror(file) \o <<"\n", "\n">>)

\* markdown_of going through the files last to first
markdown_of_reversed(structure, files, root, unreadable) ==
  <<"#", " ", "F", "i", "l", "e", " ", "S", "t", "r", "u", "c", "t", "u", "r", "e", "\n", "\n", "\n">>
  \o <<"BACKTICK", "BACKTICK", "BACKTICK", "\n">> \o structure \o <<"\n", "BACKTICK", "BACKTICK", "BACKTICK">>
  \o <<"\n", "\n", "\n", "#", " ", "F", "i", "l", "e", " ", "C", "o", "n", "t", "e", "n", "t", "s", "\n", "\n">>
  \o flatten([i \in 1..Len(files) |-> section(files[Len(files) + 1 - i], root, unreadable)])

\* the markdown create_markdown assembles, given the text of the tree
markdown_of(structure, files, root, unreadable) ==
  <<"#", " ", "F", "i", "l", "e", " ", "S", "t", "r", "u", "c", "t", "u", "r", "e", "\n", "\n", "\n">>
  \o <<"BACKTICK", "BACKTICK", "BACKTICK", "\n">> \o structure \o <<"\n", "BACKTICK", "BACKTICK", "BACKTICK">>
  \o <<"\n", "\n", "\n", "#", " ", "F", "i", "l", "e", " ", "C", "o", "n", "t", "e", "n", "t", "s", "\n", "\n">>
  \o flatten([i \in 1..Len(files) |-> section(files[i], root, unreadable)])

\* create_markdown without its test for an empty selection
no_files_selected_never(files) == FALSE

\* the test create_markdown makes before anything else
no_files_selected(files) == files = <<>>

\* create_markdown.  unreadable is the set of selected files open() or
\* read() fails on when the loop reaches them: every path that is no file
\* of the disk, and any file of the disk (deleted since, not permitted, not
\* UTF-8).
create_markdown ==
  /\ raised = "none"
  /\ \E unreadable \in SUBSET Range(selected_files) :
       /\ Range(selected_files) \ DiskFiles \subseteq unreadable
       /\ last' = Call("create_markdown", unreadable, <<>>, 0, 0)
       /\ UNCHANGED <<selected_files, root_folder, file_list, root_label>>
       /\ IF no_files_selected(selected_files)
          THEN /\ dialogs' = <<MessageBox("warning", "No Files",
                                 <<"N", "o", " ", "f", "i", "l", "e", "s", " ", "s", "e", "l", "e", "c", "t", "e", "d", ".">>)>>
               /\ copied' = <<>>
               /\ structure_text' = <<>>
               /\ UNCHANGED raised
          ELSE \E structure \in {get_file_structure(selected_files, root_folder)} :
                  IF structure.ok
                  THEN /\ copied' = <<markdown_of(structure.text, selected_files, root_folder, unreadable)>>
                       /\ structure_text' = <<structure.text>>
                       /\ dialogs' = <<MessageBox("information", "Markdown Created",
                                         <<"M", "a", "r", "k", "d", "o", "w", "n", " ", "h", "a", "s", " ", "b", "e", "e", "n", " ", "c", "o", "p", "i", "e", "d", " ", "t", "o", " ", "c", "l", "i", "p", "b", "o", "a", "r", "d", ".">>)>>
                       /\ UNCHANGED raised
                  ELSE /\ raised' = "TypeError"
                       /\ dialogs' = <<>>
                       /\ copied' = <<>>
                       /\ structure_text' = <<>>

Next ==
  \/ add_files
  \/ add_folder
  \/ dropEvent
  \/ select_root
  \/ remove_selected_file
  \/ clear_files
  \/ create_markdown

Spec == Init /\ [][Next]_vars

\* ------------------------------------------- get_file_structure by itself
\* get_file_structure reads self.selected_files and self.root_folder and
\* nothing else.  TreeSpec calls it once on a list of distinct paths and a
\* root folder taken from the sets below, whatever handlers set them.
MaxTreeFiles == 3

FileRootA    == <<"/", "r", "o", "o", "t", "/", "a", ".", "t", "x", "t">>
FileRootDirB == <<"/", "r", "o", "o", "t", "/", "d", "i", "r", "/", "b", ".", "t", "x", "t">>
DirRoot      == <<"/", "r", "o", "o", "t">>

TreePaths == FilePaths \cup {FileRootA, FileRootDirB}
TreeRoots == Dirs \cup {DirRoot, FileABC}

TreeFiles ==
  {files \in SeqUpTo(TreePaths, MaxTreeFiles) :
     \A i, j \in 1..Len(files) : files[i] = files[j] => i = j}

TreeInit ==
  /\ selected_files \in TreeFiles
  /\ root_folder \in TreeRoots
  /\ file_list = update_file_list(selected_files)
  /\ root_label = root_label_text(root_folder)
  /\ dialogs = <<>>
  /\ copied = <<>>
  /\ structure_text = <<>>
  /\ raised = "none"
  /\ last = [op |-> "init", arg |-> <<>>, files |-> <<>>, added |-> 0, skipped |-> 0,
             before |-> <<>>, root_before |-> <<>>]

\* one call of self.get_file_structure()
call_get_file_structure ==
  /\ raised = "none"
  /\ last.op = "init"
  /\ \E file_structure \in {get_file_structure(selected_files, root_folder)} :
       /\ structure_text' = IF file_structure.ok THEN <<file_structure.text>> ELSE <<>>
       /\ raised' = IF file_structure.ok THEN "none" ELSE "TypeError"
  /\ last' = Call("get_file_structure", <<>>, <<>>, 0, 0)
  /\ UNCHANGED <<selected_files, root_folder, file_list, root_label, dialogs, copied>>

TreeNext == call_get_file_structure

TreeSpec == TreeInit /\ [][TreeNext]_vars

\* ================================================================ claims
\* the handlers that add files: add_files, add_folder and the drop
AddOps == {"add_files", "add_folder", "dropEvent"}

\* the handlers after which the root folder has been recomputed
RecomputeOps == AddOps \cup {"remove_selected_file", "clear_files"}

\* q is a prefix of p
IsPrefix(q, p) == Len(q) <= Len(p) /\ \A i \in 1..Len(q) : q[i] = p[i]

\* the directory segments of an absolute path
Segments(p) == SelectSeq(split(p, "/"), LAMBDA x : x # <<>>)

\* the longest list of segments every path of files starts with
LongestCommonSegments(files) ==
  LET common == {c \in {SubSeq(Segments(files[1]), 1, k) : k \in 0..Len(Segments(files[1]))} :
                   \A i \in 1..Len(files) : IsPrefix(c, Segments(files[i]))}
  IN CHOOSE c \in common : \A d \in common : Len(d) <= Len(c)

\* the path those segments spell
CommonAncestor(files) == <<"/">> \o str_join(<<"/">>, LongestCommonSegments(files))

\* C1: in every reachable state the list of selected files holds no path
\* twice, whatever lists (with repeats, with paths already selected) the
\* dialogs, the folder walks and the drops have supplied.
C1_NoDuplicates ==
  \A i, j \in 1..Len(selected_files) : selected_files[i] = selected_files[j] => i = j

\* C1 witness: an add that was handed a path already selected, or the same
\* path twice, has run on a list of two or more files.
C1_Witness ==
  /\ last.op \in AddOps
  /\ last.skipped > 0
  /\ Len(selected_files) >= 2

\* C2: after a handler that adds, removes or clears, a non-empty list of
\* selected files has as its root folder the longest common prefix of the
\* paths taken segment by segment.
C2_RootIsCommonSegmentPrefix ==
  (last.op \in RecomputeOps /\ selected_files # <<>>)
    => root_folder = CommonAncestor(selected_files)

\* C2 witness: /a/b/c.txt and /a/bb/d.txt are selected and the root is /a,
\* not the character prefix /a/b.
C2_Witness ==
  /\ last.op \in AddOps
  /\ Range(selected_files) = {FileABC, FileABBD}
  /\ root_folder = <<"/", "a">>

\* C3 (as claimed): when exactly one file is selected after an add or a
\* remove, the root folder is the directory that holds the file.
C3_SingleFileRootIsParent ==
  (last.op \in RecomputeOps /\ Len(selected_files) = 1)
    => root_folder = dirname(selected_files[1])

\* C4 (as claimed): after select_root has been given a folder while files
\* are selected, the root folder is that folder.
C4_SelectedRootInForce ==
  (last.op = "select_root" /\ last.arg # <<>> /\ selected_files # <<>>)
    => root_folder = last.arg[1]

\* C5: clear_files leaves no file selected, removing the only selected file
\* leaves none either, and after a handler that adds, removes or clears an
\* empty list goes with an empty root folder.
C5_EmptyMeansNoRoot ==
  /\ last.op = "clear_files" => selected_files = <<>>
  /\ (last.op = "remove_selected_file" /\ last.arg # <<>> /\ Len(last.before) = 1)
       => selected_files = <<>>
  /\ (last.op \in RecomputeOps /\ selected_files = <<>>) => root_folder = <<>>

\* C5 witness: clear_files has run on a selection that had a root folder.
C5_Witness ==
  /\ last.op = "clear_files"
  /\ last.before # <<>>
  /\ last.root_before # <<>>
  /\ selected_files = <<>>
  /\ root_folder = <<>>

\* the text of the message box that reports an add
AddReport(added, skipped) ==
  <<"A", "d", "d", "e", "d", " ">> \o str(added)
  \o <<" ", "f", "i", "l", "e", "s", ".", " ", "S", "k", "i", "p", "p", "e", "d", " ">> \o str(skipped)
  \o <<" ", "d", "u", "p", "l", "i", "c", "a", "t", "e", " ", "f", "i", "l", "e", "s", ".">>

\* how often x occurs in the sequence s
Count(s, x) == Cardinality({i \in 1..Len(s) : s[i] = x})

\* the step "add_files([p]) is called right after add_files([p]) added p"
SecondAddOf(p) ==
  /\ last.op = "add_files" /\ last.files = <<p>> /\ p \notin Range(last.before)
  /\ last'.op = "add_files" /\ last'.files = <<p>>

\* C6 (as claimed): when add_files([p]) is called twice in a row for a p
\* that was not selected, p is selected once, the list has grown by one in
\* all, and the second call reports added=1, skipped=1.
C6_SecondAddReportsOneAdded ==
  [][\A p \in FilePaths :
       SecondAddOf(p) =>
         /\ Count(selected_files', p) = 1
         /\ Len(selected_files') = Len(last.before) + 1
         /\ last'.added = 1 /\ last'.skipped = 1]_vars

\* C6 (amended): when add_files([p]) is called twice in a row for a p that
\* was not selected, p is selected once, the list has grown by one in all,
\* and the second call counts added=0, skipped=1 and says so in its message
\* box.
C6_SecondAddReportsNoneAdded ==
  [][\A p \in FilePaths :
       SecondAddOf(p) =>
         /\ Count(selected_files', p) = 1
         /\ Len(selected_files') = Len(last.before) + 1
         /\ last'.added = 0 /\ last'.skipped = 1
         /\ dialogs' = <<MessageBox("information", "Files Added", AddReport(0, 1))>>]_vars

\* C6 witness: add_files([p]) has run on a list that already held p and
\* has reported one skipped file.
C6_Witness ==
  /\ last.op = "add_files"
  /\ Len(last.files) = 1
  /\ last.files[1] \in Range(last.before)
  /\ Count(selected_files, last.files[1]) = 1
  /\ dialogs # <<>>

\* the paths of files that are not in before, each where it first occurs
NewInOrder(files, before) ==
  LET first(i) == files[i] \notin Range(before) /\ \A j \in 1..(i - 1) : files[j] # files[i]
      places == SelectSeq([i \in 1..Len(files) |-> i], first)
  IN [k \in 1..Len(places) |-> files[places[k]]]

\* C7: an add leaves the list as it was, followed by the paths of its input
\* that were not yet selected, in input order; a remove leaves the other
\* paths in the order they had.
C7_InsertionOrderKept ==
  /\ last.op \in AddOps
       => selected_files = last.before \o NewInOrder(last.files, last.before)
  /\ (last.op = "remove_selected_file" /\ last.arg # <<>>)
       => selected_files = SelectSeq(last.before, LAMBDA x : x # last.arg[1])

\* C7 witness: /a/bb/d.txt then /a/b/c.txt were added in one call to an
\* empty list, and the list holds them in that order, which is not sorted.
C7_Witness ==
  /\ last.op = "add_files"
  /\ last.before = <<>>
  /\ last.files = <<FileABBD, FileABC>>
  /\ selected_files = <<FileABBD, FileABC>>

C9_EmptySelectionAborts ==
  (last.op = "create_markdown" /\ last.before = <<>>) =>
    /\ copied = <<>>
    /\ raised = "none"
    /\ Len(dialogs) = 1 /\ dialogs[1].kind = "warning"
    /\ selected_files = last.before
    /\ root_folder = last.root_before

\* C9 witness: create_markdown has run with no file selected.
C9_Witness ==
  /\ last.op = "create_markdown"
  /\ last.before = <<>>
  /\ dialogs # <<>>

\* piece occurs in text
Contains(text, piece) ==
  \E i \in 1..(Len(text) - Len(piece) + 1) : SubSeq(text, i, i + Len(piece) - 1) = piece

\* what the section of a file has to hold: its fenced content when it can
\* be read, the notice when it cannot
ExpectedBody(file, unreadable) ==
  IF file \notin unreadable
  THEN <<"\n">> \o content(file) \o <<"\n", "BACKTICK", "BACKTICK", "BACKTICK", "\n">>
  ELSE <<"E", "r", "r", "o", "r", " ", "r", "e", "a", "d", "i", "n", "g", " ", "f", "i", "l", "e", ":", " ">>
       \o strerror(file)

\* C10 (as claimed): create_markdown on a non-empty selection always
\* delivers a document, whichever files fail to read, and the document holds
\* the content of every file that could be read and the notice for every
\* file that could not.
C10_ReadErrorsAreIsolated ==
  (last.op = "create_markdown" /\ last.before # <<>>) =>
    /\ raised = "none"
    /\ Len(copied) = 1
    /\ \A f \in Range(selected_files) : Contains(copied[1], ExpectedBody(f, last.arg))

RECURSIVE Entries(_)
Entries(d) ==
  UNION {{<<i>>} \cup {<<i>> \o p : p \in (IF d.items[i][2].dir THEN Entries(d.items[i][2]) ELSE {})}
         : i \in 1..Len(d.items)}

\* the dict that holds the entry at p
RECURSIVE HolderOf(_, _)
HolderOf(d, p) == IF Len(p) = 1 THEN d ELSE HolderOf(d.items[p[1]][2], Tail(p))

\* the entry at p is the last of its siblings
IsLastSibling(d, p) == p[Len(p)] = Len(HolderOf(d, p).items)

\* p comes before q when the tree is read top-down: p is above q, or they
\* part at siblings of which p's comes first
ReadBefore(p, q) ==
  \/ Len(p) < Len(q) /\ IsPrefix(p, q)
  \/ \E k \in 1..Len(p) :
       /\ k <= Len(q)
       /\ SubSeq(p, 1, k - 1) = SubSeq(q, 1, k - 1)
       /\ p[k] < q[k]

\* the line of the entry at p in the layout of the tree command
TreeLine(d, p) ==
  flatten([j \in 1..(Len(p) - 1) |->
             IF IsLastSibling(d, SubSeq(p, 1, j))
             THEN <<" ", " ", " ", " ">>
             ELSE <<"U+2502", " ", " ", " ">>])
  \o (IF IsLastSibling(d, p)
      THEN <<"U+2514", "U+2500", "U+2500", "U+2500">>
      ELSE <<"U+251C", "U+2500", "U+2500", "U+2500">>)
  \o HolderOf(d, p).items[p[Len(p)]][1]

\* the three lines of /root/a.txt and /root/dir/b.txt under /root
ExampleTreeLines ==
  << <<"U+251C", "U+2500", "U+2500", "U+2500", "a", ".", "t", "x", "t">>,
     <<"U+2514", "U+2500", "U+2500", "U+2500", "d", "i", "r">>,
     <<" ", " ", " ", " ", "U+2514", "U+2500", "U+2500", "U+2500", "b", ".", "t", "x", "t">> >>

\* C12: the text get_file_structure returns for a tree has one line per
\* entry, read top-down with siblings in insertion order; each line is the
\* prefix, then U+251C U+2500 U+2500 U+2500 for an entry that is not the last
\* of its siblings and U+2514 U+2500 U+2500 U+2500 for the last, then the
\* name; the prefix holds, for each entry above, U+2502 and three spaces
\* when that entry is not the last of its siblings and four spaces when it
\* is.  /root/a.txt and /root/dir/b.txt under /root give exactly the three
\* lines of ExampleTreeLines.
C12_TreeCommandLayout ==
  (last.op = "get_file_structure" /\ selected_files # <<>> /\ structure_text # <<>>)
    => LET d == tree_of(Dict(<<>>), selected_files, root_folder).tree
           lines == split(structure_text[1], "\n")
       IN /\ Len(lines) = Cardinality(Entries(d))
          /\ \A p \in Entries(d) :
               lines[Cardinality({q \in Entries(d) : ReadBefore(q, p)}) + 1] = TreeLine(d, p)
          /\ (selected_files = <<FileRootA, FileRootDirB>> /\ root_folder = DirRoot)
               => lines = ExampleTreeLines

\* C12 witness: the tree of /root/a.txt and /root/dir/b.txt under /root has
\* been rendered as the three lines.
C12_Witness ==
  /\ last.op = "get_file_structure"
  /\ selected_files = <<FileRootA, FileRootDirB>>
  /\ root_folder = DirRoot
  /\ structure_text = <<str_join(<<"\n">>, ExampleTreeLines)>>

\* the path of file written from the folder root, which is file itself or
\* above it: the segments of file below root joined by "/", "." when none
PathBelow(file, root) ==
  LET below == SubSeq(Segments(file), Len(Segments(root)) + 1, Len(Segments(file)))
  IN IF below = <<>> THEN <<".">> ELSE str_join(<<"/">>, below)

\* the places of the lines of text that start with mark
LinesStarting(text, mark) ==
  LET lines == split(text, "\n")
  IN SelectSeq([i \in 1..Len(lines) |-> i],
               LAMBDA i : IsPrefix(mark, lines[i]))

\* C13: the document create_markdown copies starts with the line
\* "# File Structure", has the line "# File Contents" once, and after it
\* exactly one line starting with "## " per selected file, in the order of
\* the list, each holding the path of its file relative to the root folder.
C13_OneSectionPerFileInOrder ==
  (last.op = "create_markdown" /\ copied # <<>>)
    => LET lines == split(copied[1], "\n")
           headings == LinesStarting(copied[1], <<"#", "#", " ">>)
           contents == LinesStarting(copied[1], <<"#", " ", "F", "i", "l", "e", " ", "C", "o", "n", "t", "e", "n", "t", "s">>)
       IN /\ lines[1] = <<"#", " ", "F", "i", "l", "e", " ", "S", "t", "r", "u", "c", "t", "u", "r", "e">>
          /\ Len(contents) = 1
          /\ lines[contents[1]] = <<"#", " ", "F", "i", "l", "e", " ", "C", "o", "n", "t", "e", "n", "t", "s">>
          /\ Len(headings) = Len(selected_files)
          /\ \A i \in 1..Len(headings) :
               /\ headings[i] > contents[1]
               /\ lines[headings[i]] = <<"#", "#", " ">> \o PathBelow(selected_files[i], root_folder)

\* C13 witness: a document has been made of /a/bb/d.txt and /a/b/c.txt,
\* selected in that order.
C13_Witness ==
  /\ last.op = "create_markdown"
  /\ copied # <<>>
  /\ selected_files = <<FileABBD, FileABC>>
  /\ Contains(copied[1], <<"#", "#", " ", "b", "b", "/", "d", ".", "t", "x", "t", "\n">>)

\* C14: after every handler that adds, whatever list it was handed (empty,
\* with repeats, with paths already selected), added is the number of
\* distinct paths of the list that were not selected before, skipped is the
\* length of the list minus added, and the selection has grown by added; an
\* empty list leaves the selection and the root as they were and gives
\* added = 0 and skipped = 0.
C14_AddedAndSkippedCounts ==
  last.op \in AddOps
    => /\ last.added = Cardinality(Range(last.files) \ Range(last.before))
       /\ last.skipped = Len(last.files) - last.added
       /\ Len(selected_files) = Len(last.before) + last.added
       /\ last.files = <<>>
            => /\ last.added = 0
               /\ last.skipped = 0
               /\ selected_files = last.before
               /\ root_folder = last.root_before

\* C14 witness: an add was handed the same new path twice: one added, one
\* skipped.
C14_Witness ==
  /\ last.op \in AddOps
  /\ Len(last.files) = 2
  /\ last.files[1] = last.files[2]
  /\ last.files[1] \notin Range(last.before)
  /\ last.added = 1
  /\ last.skipped = 1

\* the files of the disk at any depth under the directory d
FilesUnder(d) == {f \in DiskFiles : IsPrefix(Segments(d), Segments(f))}

\* what the latest handler was given to add: for add_folder the files under
\* its folder, for a drop the files under each directory dropped and each
\* other local path dropped
GivenToAdd ==
  IF last.op = "add_folder"
  THEN UNION {FilesUnder(last.arg[i]) : i \in 1..Len(last.arg)}
  ELSE UNION {IF ~last.arg[i].local THEN {}
              ELSE IF last.arg[i].path \in Dirs THEN FilesUnder(last.arg[i].path)
              ELSE {last.arg[i].path} : i \in 1..Len(last.arg)}

\* C15: add_folder on a directory, and a drop of directories, add exactly
\* the files found at any depth under them that were not selected yet:
\* afterwards every such file is selected, once, the paths selected before
\* are all kept in their places, and in no reachable state is a directory
\* an element of the selection.
C15_FoldersAreExpandedToFiles ==
  /\ \A i \in 1..Len(selected_files) : selected_files[i] \notin Dirs
  /\ last.op \in {"add_folder", "dropEvent"}
       => /\ Range(selected_files) = Range(last.before) \cup GivenToAdd
          /\ Len(selected_files) = Cardinality(Range(last.before) \cup GivenToAdd)
          /\ IsPrefix(last.before, selected_files)

\* C15 witness: add_folder on /a, with /a/b/c.txt selected already, has
\* added /a/bb/d.txt from two levels down and nothing else.
C15_Witness ==
  /\ last.op = "add_folder"
  /\ last.arg = << <<"/", "a">> >>
  /\ last.before = <<FileABC>>
  /\ selected_files = <<FileABC, FileABBD>>

\* the root label shows the folder root: "Root: " and the folder, or, while
\* no folder is set, "Root: Not set" as the window starts with
LabelShows(label, root) ==
  \/ label = <<"R", "o", "o", "t", ":", " ">> \o root
  \/ root = <<>> /\ label = <<"R", "o", "o", "t", ":", " ", "N", "o", "t", " ", "s", "e", "t">>

\* C16: after every handler the list widget holds the selected files in
\* their order and the root label shows the root folder; so every item the
\* widget can hand to remove_selected_file is a selected file.
C16_WidgetsMirrorState ==
  last.op # "init"
    => /\ file_list = selected_files
       /\ LabelShows(root_label, root_folder)
       /\ \A current_item \in 1..Len(file_list) : file_list[current_item] \in Range(selected_files)

\* C16 witness: a file has been removed and the widget shows the two files
\* left under the label of their root folder.
C16_Witness ==
  /\ last.op = "remove_selected_file"
  /\ last.arg # <<>>
  /\ Len(selected_files) = 2
  /\ file_list = selected_files
  /\ root_folder # <<>>
  /\ root_label = <<"R", "o", "o", "t", ":", " ">> \o root_folder

\* C17: in every reachable state with files selected, every selected file
\* is the root folder or lies below it, and its path relative to the root
\* folder, as the headings and the tree use it, has no ".." segment.
C17_FilesAtOrBelowRoot ==
  \A i \in 1..Len(selected_files) :
    /\ IsPrefix(Segments(root_folder), Segments(selected_files[i]))
    /\ pardir \notin Range(split(relpath(selected_files[i], root_folder), "/"))

\* C17 witness: select_root was given /a/b while /a/b/c.txt and /a/bb/d.txt
\* were selected, and the root is /a, above both.
C17_Witness ==
  /\ last.op = "select_root"
  /\ last.arg = << <<"/", "a", "/", "b">> >>
  /\ selected_files = <<FileABC, FileABBD>>
  /\ root_folder = <<"/", "a">>

\* the entries of the nested dict d that are None: the files of the tree
TerminalEntries(d) == {p \in Entries(d) : ~HolderOf(d, p).items[p[Len(p)]][2].dir}

\* C18 (as claimed): whenever create_markdown runs on a non-empty selection,
\* building the tree raises nothing and the tree holds exactly one terminal
\* entry per selected file, also when one selected path continues another.
C18_EveryFileHasItsEntry ==
  (last.op = "create_markdown" /\ last.before # <<>>)
    => /\ raised = "none"
       /\ structure_text # <<>>
       /\ Cardinality(TerminalEntries(tree_of(Dict(<<>>), selected_files, root_folder).tree))
            = Len(selected_files)

====
